---- MODULE Spec2Model ----
(***************************************************************************)
(* Model of the browser-automation scraper of the orchids backend:         *)
(* WebsiteScraper (backend/app/scraper.py) under the retry_async decorator *)
(* (backend/app/utils.py).                                                 *)
(*                                                                         *)
(* A scraper instance is the record "self"; every scrape_website           *)
(* invocation is a frame call[c] with its own program counter.  Browser    *)
(* resources (driver, browser, context, page) live in the table "res";     *)
(* a handle is an index into it, 0 is None / an unbound local.  Every      *)
(* browser-protocol call may succeed or fail; the number of injected       *)
(* failures is bounded per kind.                                           *)
(***************************************************************************)
EXTENDS Integers, Sequences, FiniteSets, TLC

(***************************************************************************)
(* Program constants                                                       *)
(***************************************************************************)
max_retries == 3
delay == 1
backoff_factor == 2
nav_max_retries == 3
requests_limit == 15
max_concurrent_tasks == 5
max_images == 30
max_links == 100
max_colors == 30
max_fonts == 15
max_content_blocks == 20
max_layout_containers == 50

(***************************************************************************)
(* Bounds of the model                                                     *)
(***************************************************************************)
MaxRes == 8
ProbeHardFaults == 1
MaxProbeFaults == 2
MaxCloseFaults == 1
SeqHardFaults == 3
ConcHardFaults == 1
ConcAttempts == 1
MaxTimeouts == 1
MaxTasks == 6
MaxLive == 2
MaxStealth == 3
Few == 2
Over == 1
MaxRuns == 2

Calls == {"c1", "c2"}
Ids == 1..(2 * MaxRes)
\* the handles an invocation's acquisitions draw from
IdsOf(c) == IF c = "c1" THEN 1..MaxRes ELSE (MaxRes + 1)..(2 * MaxRes)
None == 0

VARIABLES
    configured,   \* BROWSERBASE_API_KEY and BROWSERBASE_PROJECT_ID are set
    scraper,      \* "none", "created", "raised": outcome of WebsiteScraper()
    self,         \* the instance fields of the WebsiteScraper
    call,         \* one frame per scrape_website invocation
    hist,         \* per invocation: what has happened in it so far
    res,          \* browser resources, by handle
    faults,       \* failures injected so far, by kind
    mode,         \* the scenario explored: "single", "probe", "seq", "conc" for
                  \* the scraper, "tasks", "api", "dom", "resp", "session", "stealth" for
                  \* the parts below
    tasks,              \* main.py: the task table, in order of creation
    requests_used,      \* main.py: global counter
    requests_remaining, \* main.py: global counter
    response,           \* main.py: status code of the last /clone response
    html,         \* DOM extraction: the document handed to _extract_page_data
    base_url,     \* DOM extraction: the page URL
    hashseed,     \* DOM extraction: the string-hash seed of the running process
    data,         \* DOM extraction: the result of the latest run
    prev,         \* DOM extraction: the result of the run before it
    runs,         \* DOM extraction: number of runs so far
    probe,        \* responsive probe: the page probed and what was reported
    session,      \* create_browserbase_session: what the POST gave, what the
                  \* call did
    integrated_tasks  \* integrated_stealth_cloner.py: the task table

api == <<tasks, requests_used, requests_remaining, response>>
dom == <<html, base_url, hashseed, data, prev, runs>>
ext == <<api, dom, probe, session, integrated_tasks>>
scr == <<configured, scraper, self, call, hist, res, faults>>

vars == <<configured, scraper, self, call, hist, res, faults, mode, ext>>

(***************************************************************************)
(* Resources                                                               *)
(***************************************************************************)
Free == [kind |-> "free", owner |-> "none", open |-> FALSE, tries |-> 0,
         anc |-> {}, vp |-> <<0, 0>>]

NewRes(kind, c, anc, vp) ==
    [kind |-> kind, owner |-> c, open |-> TRUE, tries |-> 0, anc |-> anc, vp |-> vp]

HasFree(r, c) == \E i \in IdsOf(c) : r[i].kind = "free"

FreeId(r, c) ==
    CHOOSE i \in IdsOf(c) : r[i].kind = "free" /\ \A j \in IdsOf(c) : j < i => r[j].kind # "free"

Min2(a, b) == IF a < b THEN a ELSE b

\* close() is called on handle h and succeeds (ok) or raises.  The call
\* releases h and everything h still holds open (a browser its contexts and
\* pages, a context its pages); "tries" counts the releases run on a resource.
Close(r, h, ok) ==
    [i \in Ids |->
        IF i = h \/ (h \in r[i].anc /\ r[i].open)
        THEN [r[i] EXCEPT !.open = @ /\ ~ok, !.tries = Min2(@ + 1, 2)]
        ELSE r[i]]

\* a handle on which a protocol call can succeed
Usable(r, h) == h # None /\ r[h].open

\* A resource on which release ran exactly once and that no field or local
\* refers to any more can never be touched again: its slot is reused.
Collect(r, s, cl) ==
    LET Refs == {s.playwright, s.browser, s.context, s.page}
                  \cup UNION {{cl[c].p, cl[c].browser, cl[c].page, cl[c].xpage} : c \in Calls}
    IN [i \in Ids |->
          IF r[i].kind # "free" /\ r[i].tries = 1 /\ i \notin Refs
          THEN Free ELSE r[i]]

(***************************************************************************)
(* retry_async                                                             *)
(***************************************************************************)
RECURSIVE Pow(_, _)
Pow(b, e) == IF e = 0 THEN 1 ELSE b * Pow(b, e - 1)

\* mutant: the backoff factor is forgotten, every wait is "delay"
wait_time_flat(attempt) == delay

\* wait_time = delay * (backoff_factor ** attempt)
wait_time(attempt) == delay * Pow(backoff_factor, attempt)

\* mutant: gives up one attempt early, as the navigation loop of the cloud path does
last_attempt_early(attempt) == attempt = max_retries - 1

\* if attempt == max_retries: raise e
last_attempt(attempt) == attempt = max_retries

(***************************************************************************)
(* The page under scrape and the probes' results                           *)
(***************************************************************************)
DesktopVp == <<1920, 1080>>
CdpDefaultVp == <<1280, 720>>

viewport_sizes ==
    << [name |-> "desktop", vp |-> <<1920, 1080>>],
       [name |-> "tablet",  vp |-> <<768, 1024>>],
       [name |-> "mobile",  vp |-> <<375, 667>>] >>

test_widths == <<320, 768, 1024, 1440>>

\* <meta name="viewport"> content, as the list of its comma-separated parts
NoMeta == [isNone |-> TRUE, tokens |-> <<>>]
DeviceMeta == [isNone |-> FALSE, tokens |-> <<"width=device-width", "initial-scale=1">>]
Metas == {NoMeta, DeviceMeta}

\* computed max-width of the primary container of the page at a given width
SiteMaxWidth(w) == IF w >= 1024 THEN "1200px" ELSE "none"

WidthOutcomes == [1..4 -> {"ok", "resize_fail", "eval_fail"}]

NumFails(o) == Cardinality({i \in DOMAIN o : o[i] # "ok"})

\* screenshots[name] is stored only when resize and both captures succeeded
ShotsResult(o) == {viewport_sizes[i].name : i \in {j \in 1..3 : o[j] = "ok"}}

\* the viewport the page is left with: that of the last resize that succeeded
RECURSIVE ShotsViewport(_, _, _)
ShotsViewport(vp, o, i) ==
    IF i > 3 THEN vp
    ELSE ShotsViewport(IF o[i] = "resize_fail" THEN vp ELSE viewport_sizes[i].vp, o, i + 1)

RECURSIVE WidthsViewport(_, _, _)
WidthsViewport(vp, o, i) ==
    IF i > 4 THEN vp
    ELSE WidthsViewport(IF o[i] = "resize_fail" THEN vp ELSE <<test_widths[i], 800>>, o, i + 1)

\* breakpoints: one entry per width whose resize and evaluate succeeded
RECURSIVE Breakpoints(_, _)
Breakpoints(o, i) ==
    IF i > 4 THEN <<>>
    ELSE (IF o[i] = "ok"
          THEN <<[width |-> test_widths[i], containerMaxWidth |-> SiteMaxWidth(test_widths[i])]>>
          ELSE <<>>) \o Breakpoints(o, i + 1)

Contains(tokens, t) == \E i \in 1..Len(tokens) : tokens[i] = t

is_responsive(meta) == ~meta.isNone /\ Contains(meta.tokens, "width=device-width")

has_media_queries(bps) ==
    Len(bps) > 1 /\ \E i \in 2..Len(bps) : bps[i].containerMaxWidth # bps[1].containerMaxWidth

ResponsiveDefault ==
    [keys |-> {"is_responsive"}, viewport_meta |-> NoMeta, breakpoint_tests |-> <<>>,
     is_responsive |-> FALSE, has_media_queries |-> FALSE]

ResponsiveResult(meta, o) ==
    [keys |-> {"viewport_meta", "breakpoint_tests", "is_responsive", "has_media_queries"},
     viewport_meta |-> meta,
     breakpoint_tests |-> Breakpoints(o, 1),
     is_responsive |-> is_responsive(meta),
     has_media_queries |-> has_media_queries(Breakpoints(o, 1))]

NoResult ==
    [set |-> FALSE, screenshots |-> {}, performance |-> "unset", layout |-> <<>>,
     responsive_breakpoints |-> ResponsiveDefault, page_insights |-> <<>>,
     page_data |-> "unset", browserbase_used |-> FALSE, scraping_method |-> "unset"]

AllOk4 == [i \in 1..4 |-> "ok"]


(***************************************************************************)
(* Frames, history and the initial state                                   *)
(***************************************************************************)
InitFrame ==
    [pc |-> "idle", attempt |-> 0, waits |-> <<>>, path |-> "none", navTry |-> 0,
     exc |-> FALSE, lastFail |-> "none", navStatus |-> 0,
     p |-> None, browser |-> None, page |-> None, xpage |-> None,
     result |-> NoResult]

InitHist ==
    [attemptsRun |-> 0, cloudAcq |-> 0, localAcq |-> 0, fallbacks |-> 0, navFails |-> 0,
     extractStarted |-> FALSE, hard |-> FALSE, failedProbes |-> {}, partialProbes |-> {},
     cloudFirst |-> FALSE, foreignUse |-> FALSE]

NoSelf ==
    [use_browserbase |-> FALSE, playwright |-> None, browser |-> None,
     context |-> None, page |-> None]

\* the parts of the program that a scenario does not exercise
IdleExcept(part) ==
    /\ IF part = "dom" THEN TRUE
       ELSE /\ html = "none"
            /\ base_url = <<>>
            /\ hashseed = 0
            /\ data = "none"
            /\ prev = "none"
            /\ runs = 0
    /\ IF part = "probe" THEN TRUE ELSE probe = "none"
    /\ IF part = "session" THEN TRUE ELSE session = "none"
    /\ IF part = "stealth" THEN TRUE ELSE integrated_tasks = <<>>
    /\ tasks = <<>>
    /\ requests_used = 0
    /\ requests_remaining = requests_limit
    /\ response = 0

ScraperIdle ==
    /\ configured = TRUE
    /\ scraper = "none"
    /\ self = NoSelf
    /\ call = [c \in Calls |-> InitFrame]
    /\ hist = [c \in Calls |-> InitHist]
    /\ res = [i \in Ids |-> Free]
    /\ faults = [hard |-> 0, probe |-> 0, close |-> 0, timeout |-> 0]

InitCommon ==
    /\ configured \in BOOLEAN
    /\ scraper = "none"
    /\ self = NoSelf
    /\ call = [c \in Calls |-> InitFrame]
    /\ hist = [c \in Calls |-> InitHist]
    /\ res = [i \in Ids |-> Free]
    /\ faults = [hard |-> 0, probe |-> 0, close |-> 0, timeout |-> 0]
    /\ IdleExcept("none")

Init == InitCommon /\ mode = "single"
InitProbe == InitCommon /\ mode = "probe"
InitSeq == InitCommon /\ mode = "seq"
InitConc == InitCommon /\ mode = "conc"

\* How many failures of each kind the environment may inject: "hard" is a
\* call whose exception propagates, "timeout" a page.goto that raises
\* PlaywrightTimeoutError, "probe" a call inside a probe's try/except,
\* "close" a close() or stop().  A single call bounds its hard failures and
\* timeouts by itself (retry_async gives up), so they are not limited there.
Limited(kind) == ~(kind \in {"hard", "timeout"} /\ mode = "single")

CanFail(kind, n) ==
    LET Budget ==
            CASE kind = "hard" ->
                    (IF mode = "probe" THEN ProbeHardFaults
                     ELSE IF mode = "seq" THEN SeqHardFaults ELSE ConcHardFaults)
              [] kind = "timeout" -> MaxTimeouts
              [] kind = "probe" -> (IF mode = "probe" THEN MaxProbeFaults ELSE 0)
              [] OTHER -> (IF mode = "conc" THEN 0 ELSE MaxCloseFaults)
    IN Limited(kind) => faults[kind] + n <= Budget

Charge(kind, n) == IF Limited(kind) THEN [faults EXCEPT ![kind] = @ + n] ELSE faults

Running(c) == call[c].pc \notin {"idle", "returned", "raised"}
Done(c) == call[c].pc \in {"returned", "raised"}

FinallyPc(f) == IF f.path = "bb" THEN "bb_finally" ELSE "cl_page"

RaiseFrame(f, stage) ==
    [f EXCEPT !.exc = TRUE, !.lastFail = stage, !.pc = FinallyPc(f), !.result = NoResult]

\* c touches handles; foreignUse when another invocation acquired one of them
Touch(h, c, hs) ==
    [h EXCEPT !.foreignUse = @ \/ \E x \in hs : x # None /\ res[x].owner # c]

(***************************************************************************)
(* WebsiteScraper.__init__                                                 *)
(***************************************************************************)
Construct ==
    /\ scraper = "none"
    /\ IF configured
       THEN /\ scraper' = "created"
            /\ self' = [NoSelf EXCEPT !.use_browserbase = TRUE]
       ELSE /\ scraper' = "raised"
            /\ self' = self
    /\ UNCHANGED <<configured, call, hist, res, faults, mode, ext>>

(***************************************************************************)
(* retry_async wrapper around scrape_website                               *)
(***************************************************************************)
\* a caller invokes scraper.scrape_website(url): attempt 0 of the wrapper
Begin(c) ==
    /\ scraper = "created"
    /\ call[c].pc = "idle"
    /\ CASE mode \in {"single", "probe"} -> c = "c1"
         [] mode = "seq" -> (\A d \in Calls : ~Running(d)) /\ (c = "c2" => Done("c1"))
         [] OTHER -> TRUE
    /\ call' = [call EXCEPT ![c] = [InitFrame EXCEPT !.pc = "attempt"]]
    /\ hist' = [hist EXCEPT ![c] = [InitHist EXCEPT !.cloudFirst = self.use_browserbase]]
    /\ UNCHANGED <<configured, scraper, self, res, faults, mode, ext>>

\* body of scrape_website: if self.use_browserbase: ... else local
StartAttempt(c) ==
    /\ call[c].pc = "attempt"
    /\ mode = "conc" => call[c].attempt < ConcAttempts
    /\ call' = [call EXCEPT ![c] =
                  [@ EXCEPT !.pc = IF self.use_browserbase THEN "bb_session" ELSE "pw_start",
                            !.path = IF self.use_browserbase THEN "bb" ELSE "pw",
                            !.exc = FALSE, !.lastFail = "none", !.navTry = 0,
                            !.navStatus = 0, !.result = NoResult]]
    /\ hist' = [hist EXCEPT ![c] =
                  [@ EXCEPT !.attemptsRun = @ + 1, !.failedProbes = {}, !.partialProbes = {}]]
    /\ UNCHANGED <<configured, scraper, self, res, faults, mode, ext>>

\* mutant: falls back to local without switching the cloud off
Fallback_keeps_cloud(c) ==
    /\ call[c].pc = "bb_raise"
    /\ call' = [call EXCEPT ![c] =
                  [@ EXCEPT !.pc = "pw_start", !.path = "pw", !.exc = FALSE,
                            !.lastFail = "none", !.navTry = 0, !.navStatus = 0,
                            !.result = NoResult]]
    /\ hist' = [hist EXCEPT ![c] =
                  [@ EXCEPT !.fallbacks = @ + 1, !.failedProbes = {}, !.partialProbes = {}]]
    /\ UNCHANGED <<configured, scraper, self, res, faults, mode, ext>>

\* except Exception in scrape_website: self.use_browserbase = False, then local
Fallback(c) ==
    /\ call[c].pc = "bb_raise"
    /\ self' = [self EXCEPT !.use_browserbase = FALSE]
    /\ call' = [call EXCEPT ![c] =
                  [@ EXCEPT !.pc = "pw_start", !.path = "pw", !.exc = FALSE,
                            !.lastFail = "none", !.navTry = 0, !.navStatus = 0,
                            !.result = NoResult]]
    /\ hist' = [hist EXCEPT ![c] =
                  [@ EXCEPT !.fallbacks = @ + 1, !.failedProbes = {}, !.partialProbes = {}]]
    /\ UNCHANGED <<configured, scraper, res, faults, mode, ext>>

\* except Exception in retry_async.wrapper: raise on the last attempt, else
\* sleep wait_time and run the function again
RetryHandler(c) ==
    /\ call[c].pc = "retry"
    /\ IF last_attempt(call[c].attempt)
       THEN call' = [call EXCEPT ![c] = [@ EXCEPT !.pc = "raised"]]
       ELSE call' = [call EXCEPT ![c] =
                       [@ EXCEPT !.pc = "attempt",
                                 !.waits = Append(@, wait_time(call[c].attempt)),
                                 !.attempt = @ + 1]]
    /\ hist' = [hist EXCEPT ![c] =
                  [@ EXCEPT !.navFails = IF call[c].lastFail = "navigate" THEN @ + 1 ELSE @]]
    /\ UNCHANGED <<configured, scraper, self, res, faults, mode, ext>>

(***************************************************************************)
(* _scrape_with_browserbase                                                *)
(***************************************************************************)
\* What requests.post(f"{base_url}/sessions", ..., timeout=30) can give: a
\* response with a status code and a JSON body, or a requests.RequestException
\* (Timeout after 30 s, ConnectionError).
HTTP_OK == 200

PostOutcomes ==
    LET NoBody == [has_id |-> FALSE, id |-> "none"]
        Bodies == {[has_id |-> TRUE, id |-> s] : s \in {"sess_a", "sess_b"}} \cup {NoBody}
    IN {[kind |-> "response", status |-> st, body |-> b] : st \in 100..599, b \in Bodies}
        \cup {[kind |-> k, status |-> 0, body |-> NoBody] : k \in {"Timeout", "ConnectionError"}}

\* create_browserbase_session: the id of the body when the status is 200
\* (KeyError when the body has none), Exception("Failed to create Browserbase
\* session: ...") for any other status and for a RequestException.
create_browserbase_session(post) ==
    IF post.kind # "response"
    THEN [raised |-> "Exception", id |-> "none"]
    ELSE IF post.status = HTTP_OK
         THEN IF post.body.has_id
              THEN [raised |-> "none", id |-> post.body.id]
              ELSE [raised |-> "KeyError", id |-> "none"]
         ELSE [raised |-> "Exception", id |-> "none"]

\* session_id = await self.create_browserbase_session()
CreateSession(c) ==
    /\ call[c].pc = "bb_session"
    /\ \E ok \in {create_browserbase_session(post).raised = "none" : post \in PostOutcomes} :
         /\ ~ok => CanFail("hard", 1)
         /\ faults' = IF ok THEN faults ELSE Charge("hard", 1)
         /\ call' = [call EXCEPT ![c] =
                       IF ok THEN [@ EXCEPT !.pc = "bb_enter"]
                       ELSE [@ EXCEPT !.pc = "bb_raise", !.exc = TRUE, !.lastFail = "acquire"]]
         /\ hist' = [hist EXCEPT ![c] =
                       [@ EXCEPT !.cloudAcq = @ + 1, !.hard = @ \/ ~ok]]
    /\ UNCHANGED <<configured, scraper, self, res, mode, ext>>

\* async with async_playwright() as p
BBEnter(c) ==
    /\ call[c].pc = "bb_enter"
    /\ \E ok \in BOOLEAN :
         /\ ~ok => CanFail("hard", 1)
         /\ ok => HasFree(res, c)
         /\ faults' = IF ok THEN faults ELSE Charge("hard", 1)
         /\ res' = IF ok THEN [res EXCEPT ![FreeId(res, c)] = NewRes("driver", c, {}, <<0, 0>>)]
                   ELSE res
         /\ call' = [call EXCEPT ![c] =
                       IF ok THEN [@ EXCEPT !.pc = "bb_connect", !.p = FreeId(res, c)]
                       ELSE [@ EXCEPT !.pc = "bb_raise", !.exc = TRUE, !.lastFail = "acquire"]]
         /\ hist' = [hist EXCEPT ![c] = [@ EXCEPT !.hard = @ \/ ~ok]]
    /\ UNCHANGED <<configured, scraper, self, mode, ext>>

\* browser = await p.chromium.connect_over_cdp(...)
BBConnect(c) ==
    /\ call[c].pc = "bb_connect"
    /\ \E ok \in BOOLEAN :
         /\ ~ok => CanFail("hard", 1)
         /\ ok => HasFree(res, c)
         /\ faults' = IF ok THEN faults ELSE Charge("hard", 1)
         /\ res' = IF ok THEN [res EXCEPT ![FreeId(res, c)] = NewRes("browser", c, {}, <<0, 0>>)]
                   ELSE res
         /\ call' = [call EXCEPT ![c] =
                       IF ok THEN [@ EXCEPT !.pc = "bb_newpage", !.browser = FreeId(res, c)]
                       ELSE RaiseFrame(@, "acquire")]
         /\ hist' = [hist EXCEPT ![c] = [@ EXCEPT !.hard = @ \/ ~ok]]
    /\ UNCHANGED <<configured, scraper, self, mode, ext>>

\* page = await browser.new_page(); set_extra_http_headers
BBNewPage(c) ==
    /\ call[c].pc = "bb_newpage"
    /\ \E ok \in BOOLEAN :
         /\ ~ok => CanFail("hard", 1)
         /\ ok => HasFree(res, c)
         /\ faults' = IF ok THEN faults ELSE Charge("hard", 1)
         /\ res' = IF ok
                   THEN [res EXCEPT ![FreeId(res, c)] =
                           NewRes("page", c, {call[c].browser}, CdpDefaultVp)]
                   ELSE res
         /\ call' = [call EXCEPT ![c] =
                       IF ok THEN [@ EXCEPT !.pc = "bb_goto", !.page = FreeId(res, c)]
                       ELSE RaiseFrame(@, "acquire")]
         /\ hist' = [hist EXCEPT ![c] = [@ EXCEPT !.hard = @ \/ ~ok]]
    /\ UNCHANGED <<configured, scraper, self, mode, ext>>

NavOutcomes == {"ok200", "ok404", "noresponse", "timeout", "error"}
Loaded == {"ok200", "ok404", "noresponse"}
StatusOf(o) == IF o = "ok200" THEN 200 ELSE IF o = "ok404" THEN 404 ELSE 0
FaultOf(o) == IF o = "timeout" THEN "timeout" ELSE "hard"

\* for attempt in range(max_retries): await page.goto(url, "networkidle");
\* the response is not looked at; only a timeout is retried
BBGoto(c) ==
    /\ call[c].pc = "bb_goto"
    /\ \E o \in NavOutcomes :
         /\ o # "ok200" => CanFail(FaultOf(o), 1)
         /\ faults' = IF o = "ok200" THEN faults ELSE Charge(FaultOf(o), 1)
         /\ call' = [call EXCEPT ![c] =
                       IF o \in Loaded
                       THEN [@ EXCEPT !.pc = "x_content", !.navStatus = StatusOf(o),
                                      !.xpage = call[c].page]
                       ELSE IF o = "timeout" /\ call[c].navTry # nav_max_retries - 1
                       THEN [@ EXCEPT !.navTry = @ + 1]
                       ELSE RaiseFrame(@, "navigate")]
         /\ hist' = [hist EXCEPT ![c] =
                       [@ EXCEPT !.hard = @ \/ (o \notin Loaded
                                    /\ ~(o = "timeout" /\ call[c].navTry # nav_max_retries - 1))]]
    /\ UNCHANGED <<configured, scraper, self, res, mode, ext>>

\* finally: try: await browser.close() except: pass
BBFinally(c) ==
    /\ call[c].pc = "bb_finally"
    /\ \E ok \in BOOLEAN :
         /\ call[c].browser = None => ok
         /\ ~ok => CanFail("close", 1)
         /\ faults' = IF ok THEN faults ELSE Charge("close", 1)
         /\ res' = IF call[c].browser # None THEN Close(res, call[c].browser, ok) ELSE res
    /\ call' = [call EXCEPT ![c] = [@ EXCEPT !.pc = "bb_exit"]]
    /\ UNCHANGED <<configured, scraper, self, hist, mode, ext>>

\* leaving "async with async_playwright() as p": the driver is stopped, then
\* the function returns scraped_data or the exception propagates
BBExit(c) ==
    /\ call[c].pc = "bb_exit"
    /\ \E ok \in BOOLEAN :
         /\ ~ok => CanFail("close", 1)
         /\ faults' = IF ok THEN faults ELSE Charge("close", 1)
         /\ LET failed == call[c].exc \/ ~ok
                f == [call[c] EXCEPT !.p = None, !.browser = None, !.page = None,
                                     !.xpage = None,
                                     !.exc = failed,
                                     !.lastFail = IF call[c].exc THEN @
                                                  ELSE IF ok THEN @ ELSE "release",
                                     !.result = IF failed THEN NoResult ELSE @,
                                     !.pc = IF failed THEN "bb_raise" ELSE "returned"]
                cl == [call EXCEPT ![c] = f]
            IN /\ call' = cl
               /\ res' = Collect(Close(res, call[c].p, ok), self, cl)
               /\ hist' = [hist EXCEPT ![c] = [@ EXCEPT !.hard = @ \/ ~ok]]
    /\ UNCHANGED <<configured, scraper, self, mode, ext>>


(***************************************************************************)
(* _scrape_with_playwright                                                 *)
(***************************************************************************)
\* One acquisition step of the local path: "self.<field> = await <via>.<new>()".
\* The call is made on the handle self[via] holds at that moment, and it
\* fails without any injected fault when that handle is None or closed.
Acquire(c, here, via, field, kind, next) ==
    /\ call[c].pc = here
    /\ LET usable == IF via = "none" THEN TRUE ELSE Usable(res, self[via])
           anc == IF via \in {"none", "playwright"} THEN {}
                  ELSE res[self[via]].anc \cup {self[via]}
           touched == (IF via = "none" THEN {} ELSE {self[via]}) \cup {self[field]}
       IN \E ok \in BOOLEAN :
            /\ ok => usable /\ HasFree(res, c)
            /\ (~ok /\ usable) => CanFail("hard", 1)
            /\ faults' = IF ~ok /\ usable THEN Charge("hard", 1) ELSE faults
            /\ IF ok
               THEN LET s == [self EXCEPT ![field] = FreeId(res, c)]
                        cl == [call EXCEPT ![c] = [@ EXCEPT !.pc = next]]
                    IN /\ self' = s
                       /\ call' = cl
                       /\ res' = Collect([res EXCEPT ![FreeId(res, c)] =
                                            NewRes(kind, c, anc,
                                                   IF kind = "page" THEN DesktopVp ELSE <<0, 0>>)],
                                        s, cl)
                       /\ hist' = [hist EXCEPT ![c] =
                                     [Touch(@, c, touched) EXCEPT
                                        !.localAcq = IF via = "none" THEN @ + 1 ELSE @]]
               ELSE /\ self' = self
                    /\ res' = res
                    /\ call' = [call EXCEPT ![c] = RaiseFrame(@, "acquire")]
                    /\ hist' = [hist EXCEPT ![c] =
                                  [Touch(@, c, touched \ {self[field]}) EXCEPT
                                     !.hard = TRUE,
                                     !.localAcq = IF via = "none" THEN @ + 1 ELSE @]]
    /\ UNCHANGED <<configured, scraper, mode, ext>>

\* self.playwright = await async_playwright().start()
PWStart(c) == Acquire(c, "pw_start", "none", "playwright", "driver", "pw_launch")

\* self.browser = await self.playwright.chromium.launch(...)
PWLaunch(c) == Acquire(c, "pw_launch", "playwright", "browser", "browser", "pw_context")

\* self.context = await self.browser.new_context(...)
PWContext(c) == Acquire(c, "pw_context", "browser", "context", "context", "pw_page")

\* self.page = await self.context.new_page(); set_extra_http_headers
PWPage(c) == Acquire(c, "pw_page", "context", "page", "page", "pw_goto")

\* response = await self.page.goto(url, "networkidle"); a response that is
\* missing or has status >= 400 raises; only a timeout goes on to the
\* domcontentloaded attempt
PWGoto(c) ==
    /\ call[c].pc = "pw_goto"
    /\ LET usable == Usable(res, self.page)
       IN \E o \in NavOutcomes :
            /\ ~usable => o = "error"
            /\ (usable /\ o # "ok200") => CanFail(FaultOf(o), 1)
            /\ faults' = IF usable /\ o # "ok200" THEN Charge(FaultOf(o), 1) ELSE faults
            /\ call' = [call EXCEPT ![c] =
                          IF o = "ok200"
                          THEN [@ EXCEPT !.pc = "x_content", !.navStatus = 200,
                                         !.xpage = self.page]
                          ELSE IF o = "timeout" THEN [@ EXCEPT !.pc = "pw_goto2"]
                          ELSE RaiseFrame(@, "navigate")]
            /\ hist' = [hist EXCEPT ![c] =
                          [Touch(@, c, {self.page}) EXCEPT
                             !.hard = @ \/ o \notin {"ok200", "timeout"}]]
    /\ UNCHANGED <<configured, scraper, self, res, mode, ext>>

\* except PlaywrightTimeoutError: await self.page.goto(url, "domcontentloaded");
\* the response of this second navigation is not looked at
PWGoto2(c) ==
    /\ call[c].pc = "pw_goto2"
    /\ LET usable == Usable(res, self.page)
       IN \E o \in NavOutcomes :
            /\ ~usable => o = "error"
            /\ (usable /\ o # "ok200") => CanFail(FaultOf(o), 1)
            /\ faults' = IF usable /\ o # "ok200" THEN Charge(FaultOf(o), 1) ELSE faults
            /\ call' = [call EXCEPT ![c] =
                          IF o \in Loaded
                          THEN [@ EXCEPT !.pc = "x_content", !.navStatus = StatusOf(o),
                                         !.xpage = self.page]
                          ELSE RaiseFrame(@, "navigate")]
            /\ hist' = [hist EXCEPT ![c] =
                          [Touch(@, c, {self.page}) EXCEPT !.hard = @ \/ o \notin Loaded]]
    /\ UNCHANGED <<configured, scraper, self, res, mode, ext>>

(***************************************************************************)
(* WebsiteScraper.cleanup, called from the finally of the local path       *)
(***************************************************************************)
\* "if self.<field>: await self.<field>.close(); self.<field> = None", all
\* four inside one try: the first close that raises ends the cleanup
CleanupStep(c, here, field, next) ==
    /\ call[c].pc = here
    /\ IF self[field] = None
       THEN /\ call' = [call EXCEPT ![c] = [@ EXCEPT !.pc = next]]
            /\ UNCHANGED <<self, res, faults, hist>>
       ELSE \E ok \in BOOLEAN :
              /\ ~ok => CanFail("close", 1)
              /\ faults' = IF ok THEN faults ELSE Charge("close", 1)
              /\ hist' = [hist EXCEPT ![c] = Touch(@, c, {self[field]})]
              /\ LET s == IF ok THEN [self EXCEPT ![field] = None] ELSE self
                     cl == [call EXCEPT ![c] = [@ EXCEPT !.pc = IF ok THEN next ELSE "pw_exit"]]
                 IN /\ self' = s
                    /\ call' = cl
                    /\ res' = Collect(Close(res, self[field], ok), s, cl)
    /\ UNCHANGED <<configured, scraper, mode, ext>>

CleanupPage(c) == CleanupStep(c, "cl_page", "page", "cl_context")
CleanupContext(c) == CleanupStep(c, "cl_context", "context", "cl_browser")
CleanupBrowser(c) == CleanupStep(c, "cl_browser", "browser", "cl_driver")
CleanupDriver(c) == CleanupStep(c, "cl_driver", "playwright", "pw_exit")

\* after the finally: return scraped_data, or raise Exception("Failed to scrape ...")
PWExit(c) ==
    /\ call[c].pc = "pw_exit"
    /\ LET cl == [call EXCEPT ![c] =
                    [@ EXCEPT !.xpage = None,
                              !.pc = IF call[c].exc THEN "retry" ELSE "returned"]]
       IN /\ call' = cl
          /\ res' = Collect(res, self, cl)
    /\ UNCHANGED <<configured, scraper, self, hist, faults, mode, ext>>

(***************************************************************************)
(* _extract_comprehensive_data(page, url)                                  *)
(***************************************************************************)

\* html_content = await page.content(); soup = BeautifulSoup(...)
GetContent(c) ==
    /\ call[c].pc = "x_content"
    /\ LET usable == Usable(res, call[c].xpage)
       IN \E ok \in BOOLEAN :
            /\ ok => usable
            /\ (~ok /\ usable) => CanFail("hard", 1)
            /\ faults' = IF ~ok /\ usable THEN Charge("hard", 1) ELSE faults
            /\ call' = [call EXCEPT ![c] =
                          IF ok THEN [@ EXCEPT !.pc = "x_shots"] ELSE RaiseFrame(@, "extract")]
            /\ hist' = [hist EXCEPT ![c] =
                          [Touch(@, c, {call[c].xpage}) EXCEPT
                             !.extractStarted = TRUE, !.hard = @ \/ ~ok]]
    /\ UNCHANGED <<configured, scraper, self, res, mode, ext>>

\* _capture_screenshots: per viewport set_viewport_size, two screenshots;
\* a failure skips that viewport only
CaptureScreenshots(c) ==
    /\ call[c].pc = "x_shots"
    /\ LET h == call[c].xpage
           usable == Usable(res, h)
       IN \E o \in [1..3 -> {"ok", "resize_fail", "shot_fail"}] :
            /\ ~usable => o = [i \in 1..3 |-> "resize_fail"]
            /\ usable => CanFail("probe", NumFails(o))
            /\ faults' = IF usable THEN Charge("probe", NumFails(o)) ELSE faults
            /\ res' = [res EXCEPT ![h].vp = ShotsViewport(@, o, 1)]
            /\ call' = [call EXCEPT ![c] =
                          [@ EXCEPT !.pc = "x_perf", !.result.screenshots = ShotsResult(o)]]
            /\ hist' = [hist EXCEPT ![c] =
                          [Touch(@, c, {h}) EXCEPT
                             !.failedProbes = IF ShotsResult(o) = {}
                                              THEN @ \cup {"screenshots"} ELSE @,
                             !.partialProbes = IF ShotsResult(o) # {} /\ NumFails(o) > 0
                                               THEN @ \cup {"screenshots"} ELSE @]]
    /\ UNCHANGED <<configured, scraper, self, mode, ext>>

\* mutant: a probe without its try/except, whose failure propagates
EvalProbe_raising(c, here, name, value, empty, next) ==
    /\ call[c].pc = here
    /\ LET h == call[c].xpage
           usable == Usable(res, h)
       IN \E ok \in BOOLEAN :
            /\ ok => usable
            /\ (~ok /\ usable) => CanFail("probe", 1)
            /\ faults' = IF ~ok /\ usable THEN Charge("probe", 1) ELSE faults
            /\ call' = [call EXCEPT ![c] =
                          IF ok
                          THEN [@ EXCEPT !.pc = next, !.result = [@ EXCEPT ![name] = value]]
                          ELSE RaiseFrame(@, "extract")]
            /\ hist' = [hist EXCEPT ![c] =
                          [Touch(@, c, {h}) EXCEPT
                             !.failedProbes = IF ok THEN @ ELSE @ \cup {name}]]
    /\ UNCHANGED <<configured, scraper, self, res, mode, ext>>

\* A probe that is one page.evaluate inside try/except: its value on
\* success, its empty default on failure
EvalProbe(c, here, name, value, empty, next) ==
    /\ call[c].pc = here
    /\ LET h == call[c].xpage
           usable == Usable(res, h)
       IN \E ok \in BOOLEAN :
            /\ ok => usable
            /\ (~ok /\ usable) => CanFail("probe", 1)
            /\ faults' = IF ~ok /\ usable THEN Charge("probe", 1) ELSE faults
            /\ call' = [call EXCEPT ![c] =
                          [@ EXCEPT !.pc = next,
                                    !.result = [@ EXCEPT ![name] = IF ok THEN value ELSE empty]]]
            /\ hist' = [hist EXCEPT ![c] =
                          [Touch(@, c, {h}) EXCEPT
                             !.failedProbes = IF ok THEN @ ELSE @ \cup {name}]]
    /\ UNCHANGED <<configured, scraper, self, res, mode, ext>>

\* _get_performance_metrics
GetPerformanceMetrics(c) ==
    EvalProbe(c, "x_perf", "performance", "metrics", "empty", "x_layout")

\* _analyze_layout: reports window.innerWidth / innerHeight of the page as it is
AnalyzeLayout(c) ==
    EvalProbe(c, "x_layout", "layout",
              IF call[c].xpage = None THEN <<>> ELSE res[call[c].xpage].vp, <<>>, "x_resp")

\* _detect_responsive_design: read the viewport meta, then per test width
\* set_viewport_size and evaluate; a failing width is skipped, a failing
\* meta read gives {'is_responsive': False}
DetectResponsiveDesign(c) ==
    /\ call[c].pc = "x_resp"
    /\ LET h == call[c].xpage
           usable == Usable(res, h)
       IN \E metaOk \in BOOLEAN, m \in (IF mode = "probe" THEN Metas ELSE {DeviceMeta}),
             o \in WidthOutcomes :
            /\ metaOk => usable
            /\ ~metaOk => m = DeviceMeta /\ o = AllOk4
            /\ LET n == IF metaOk THEN NumFails(o) ELSE 1
               IN /\ usable => CanFail("probe", n)
                  /\ faults' = IF usable THEN Charge("probe", n) ELSE faults
            /\ res' = IF metaOk THEN [res EXCEPT ![h].vp = WidthsViewport(@, o, 1)] ELSE res
            /\ call' = [call EXCEPT ![c] =
                          [@ EXCEPT !.pc = "x_insights",
                                    !.result.responsive_breakpoints =
                                        IF metaOk THEN ResponsiveResult(m, o)
                                        ELSE ResponsiveDefault]]
            /\ hist' = [hist EXCEPT ![c] =
                          [Touch(@, c, {h}) EXCEPT
                             !.failedProbes = IF metaOk THEN @
                                              ELSE @ \cup {"responsive_breakpoints"},
                             !.partialProbes = IF metaOk /\ NumFails(o) > 0
                                               THEN @ \cup {"responsive_breakpoints"} ELSE @]]
    /\ UNCHANGED <<configured, scraper, self, mode, ext>>

\* _get_page_insights: reports window.innerWidth / innerHeight of the page as it is
GetPageInsights(c) ==
    EvalProbe(c, "x_insights", "page_insights",
              IF call[c].xpage = None THEN <<>> ELSE res[call[c].xpage].vp, <<>>, "x_dom")

\* scraped_data = await self._extract_page_data(url, html_content, soup);
\* scraped_data.update({...}); return scraped_data
ExtractPageData(c) ==
    /\ call[c].pc = "x_dom"
    /\ \E ok \in BOOLEAN :
         /\ ~ok => CanFail("hard", 1)
         /\ faults' = IF ok THEN faults ELSE Charge("hard", 1)
         /\ call' = [call EXCEPT ![c] =
                       IF ok
                       THEN [@ EXCEPT !.pc = FinallyPc(call[c]),
                                      !.result = [@ EXCEPT
                                          !.set = TRUE,
                                          !.page_data = "data",
                                          !.browserbase_used = self.use_browserbase,
                                          !.scraping_method = IF self.use_browserbase
                                                              THEN "browserbase"
                                                              ELSE "local_playwright"]]
                       ELSE RaiseFrame(@, "extract")]
         /\ hist' = [hist EXCEPT ![c] = [@ EXCEPT !.hard = @ \/ ~ok]]
    /\ UNCHANGED <<configured, scraper, self, res, mode, ext>>

(***************************************************************************)
(* Specifications                                                          *)
(***************************************************************************)
Next ==
    \/ Construct
    \/ \E c \in Calls :
         \/ Begin(c)
         \/ StartAttempt(c)
         \/ Fallback(c)
         \/ RetryHandler(c)
         \/ CreateSession(c)
         \/ BBEnter(c)
         \/ BBConnect(c)
         \/ BBNewPage(c)
         \/ BBGoto(c)
         \/ BBFinally(c)
         \/ BBExit(c)
         \/ PWStart(c)
         \/ PWLaunch(c)
         \/ PWContext(c)
         \/ PWPage(c)
         \/ PWGoto(c)
         \/ PWGoto2(c)
         \/ CleanupPage(c)
         \/ CleanupContext(c)
         \/ CleanupBrowser(c)
         \/ CleanupDriver(c)
         \/ PWExit(c)
         \/ GetContent(c)
         \/ CaptureScreenshots(c)
         \/ GetPerformanceMetrics(c)
         \/ AnalyzeLayout(c)
         \/ DetectResponsiveDesign(c)
         \/ GetPageInsights(c)
         \/ ExtractPageData(c)

\* one scrape_website call on a fresh scraper; any call may fail, probes excepted
Spec == Init /\ [][Next]_vars

\* one scrape_website call on a fresh scraper in which probes fail
SpecProbe == InitProbe /\ [][Next]_vars

\* two scrape_website calls on the same scraper, one after the other
SpecSeq == InitSeq /\ [][Next]_vars

\* two scrape_website calls on the same scraper, running concurrently
SpecConc == InitConc /\ [][Next]_vars


(***************************************************************************)
(* Properties                                                              *)
(***************************************************************************)
\* C1: when a scrape_website call has returned or raised, release has run
\* exactly once on every browser resource the call acquired: none is left
\* without a close and none is closed twice.
C1_ReleasedExactlyOnce ==
    \A c \in Calls :
        Done(c) => \A i \in {j \in Ids : res[j].kind # "free" /\ res[j].owner = c} :
                      res[i].tries = 1

\* C2 as stated: one call runs the whole scrape at most 3 times.
C2_AtMostThreeAttempts ==
    \A c \in Calls : hist[c].attemptsRun <= 3

\* C2 as amended: one call runs the whole scrape at most max_retries + 1 = 4
\* times, and the error reaches the caller only after the 4th failed attempt.
C2_AtMostFourAttempts ==
    \A c \in Calls :
        /\ hist[c].attemptsRun <= max_retries + 1
        /\ call[c].pc = "raised" => hist[c].attemptsRun = max_retries + 1
        /\ call[c].pc = "retry" => hist[c].attemptsRun = call[c].attempt + 1

C2_Witness ==
    \E c \in Calls : call[c].pc = "raised" /\ hist[c].attemptsRun = 4

TwoNavFailuresThenSuccess(c) ==
    /\ call[c].pc = "returned"
    /\ call[c].attempt = 2
    /\ hist[c].navFails = 2

\* C3 as stated: two attempts failed in navigation, the third succeeded: the
\* call returns the data, acquisition was invoked exactly 3 times and the
\* waits were 1s then 2s.
C3_ThreeAcquisitions ==
    \A c \in Calls :
        TwoNavFailuresThenSuccess(c) =>
            /\ call[c].result.set
            /\ hist[c].cloudAcq + hist[c].localAcq = 3
            /\ call[c].waits = <<1, 2>>

\* C3 as amended: two attempts failed in navigation, the third succeeded: the
\* call returns the data, local acquisition was invoked exactly 3 times, cloud
\* acquisition once more in the first attempt when the call started with the
\* cloud enabled, and the waits were 1s then 2s, strictly increasing.
C3_ThreeLocalAcquisitions ==
    \A c \in Calls :
        TwoNavFailuresThenSuccess(c) =>
            /\ call[c].result.set
            /\ hist[c].localAcq = 3
            /\ hist[c].cloudAcq = (IF hist[c].cloudFirst THEN 1 ELSE 0)
            /\ call[c].waits = <<1, 2>>
            /\ call[c].waits[1] < call[c].waits[2]

C3_Witness ==
    \E c \in Calls : TwoNavFailuresThenSuccess(c) /\ hist[c].cloudFirst /\ call[c].result.set

C5_FallbackAtMostOnce ==
    \A c \in Calls :
        /\ hist[c].cloudAcq <= 1
        /\ hist[c].fallbacks <= 1
        /\ (hist[c].fallbacks = 1 /\ Running(c)) => ~self.use_browserbase
        /\ (hist[c].fallbacks = 1 /\ call[c].attempt = 0 /\ call[c].pc # "pw_start")
               => hist[c].localAcq = 1
        /\ call[c].attempt >= 1 => call[c].path # "bb"

C5_Witness ==
    \E c \in Calls :
        /\ hist[c].fallbacks = 1
        /\ call[c].attempt >= 1
        /\ call[c].pc = "pw_goto"

\* C6: extraction is never started after a navigation whose response had
\* HTTP status >= 400.
C6_NoExtractionOnHttpError ==
    \A c \in Calls : call[c].pc \in {"x_content", "x_shots", "x_perf", "x_layout", "x_resp",
                       "x_insights", "x_dom"} => call[c].navStatus < 400

\* C7: without cloud credentials a scraper can still be created.
C7_CreatedWithoutCloudConfig ==
    ~configured => scraper # "raised"

\* C8: when exactly one probe failed, the returned result holds that probe's
\* empty default and, in every other probe field, the value of a scrape
\* without the failure.
C8_OtherFieldsUnaffected ==
    LET Probes == {"screenshots", "performance", "layout", "responsive_breakpoints",
                   "page_insights"}
        AllOk3 == [i \in 1..3 |-> "ok"]
        EmptyDefault(p) ==
            CASE p = "screenshots" -> {}
              [] p = "performance" -> "empty"
              [] p = "layout" -> <<>>
              [] p = "responsive_breakpoints" -> ResponsiveDefault
              [] p = "page_insights" -> <<>>
        \* what each probe reports in a scrape in which no probe fails
        FailureFree(p, meta) ==
            CASE p = "screenshots" -> ShotsResult(AllOk3)
              [] p = "performance" -> "metrics"
              [] p = "layout" -> ShotsViewport(DesktopVp, AllOk3, 1)
              [] p = "responsive_breakpoints" -> ResponsiveResult(meta, AllOk4)
              [] p = "page_insights" -> WidthsViewport(DesktopVp, AllOk4, 1)
    IN
    \A c \in Calls :
        (/\ call[c].pc = "returned"
         /\ Cardinality(hist[c].failedProbes) = 1
         /\ hist[c].partialProbes = {}) =>
            \A p \in Probes :
                call[c].result[p] =
                    IF p \in hist[c].failedProbes THEN EmptyDefault(p)
                    ELSE FailureFree(p, call[c].result.responsive_breakpoints.viewport_meta)

\* C9: no invocation uses, overwrites or closes a handle that another
\* invocation acquired.
C9_NoForeignHandle ==
    \A c \in Calls : ~hist[c].foreignUse

\* C10: every call on a scraper created with cloud credentials starts its
\* first attempt with the cloud enabled, as the first call does.
C10_LaterCallStartsWithCloud ==
    \A c \in Calls :
        (call[c].pc = "attempt" /\ call[c].attempt = 0) => self.use_browserbase

(***************************************************************************)
(* main.py: POST /clone and the background task it starts                  *)
(***************************************************************************)
\* tasks[task_id] as clone_website stores it, and the background task that
\* belongs to it: progress in hundredths, result / error as "is not None",
\* present = task_id in tasks, at = where process_enhanced_clone_task is,
\* outcome = how it ended, cleanup = whether its finally ran scraper.cleanup()
NewTask ==
    [status |-> "pending", progress |-> 0, result |-> FALSE, error |-> FALSE,
     files_ready |-> FALSE, present |-> TRUE, at |-> "queued", outcome |-> "none",
     cleanup |-> "none"]

InitTasks ==
    /\ mode = "tasks"
    /\ configured \in BOOLEAN
    /\ scraper = "none"
    /\ self = NoSelf
    /\ call = [c \in Calls |-> InitFrame]
    /\ hist = [c \in Calls |-> InitHist]
    /\ res = [i \in Ids |-> Free]
    /\ faults = [hard |-> 0, probe |-> 0, close |-> 0, timeout |-> 0]
    /\ IdleExcept("none")

\* mutant: the counters are updated before the URL and the configuration
\* are checked
clone_website_counts_rejected ==
    LET free == {i \in 1..Len(tasks) : ~tasks[i].present /\ tasks[i].at = "end"}
        task_id == IF free = {} THEN Len(tasks) + 1
                   ELSE CHOOSE i \in free : \A k \in free : i <= k
    IN /\ task_id <= (IF mode = "tasks" THEN MaxTasks ELSE MaxLive)
       /\ \E valid \in BOOLEAN, anthropic_configured \in BOOLEAN :
            IF requests_remaining <= 0
            THEN /\ response' = 429
                 /\ UNCHANGED <<tasks, requests_used, requests_remaining>>
            ELSE /\ requests_used' = requests_used + 1
                 /\ requests_remaining' = requests_remaining - 1
                 /\ IF ~valid \/ ~anthropic_configured
                    THEN /\ response' = (IF ~valid THEN 400 ELSE 500)
                         /\ UNCHANGED tasks
                    ELSE /\ tasks' = [i \in 1..(IF task_id > Len(tasks) THEN task_id
                                                ELSE Len(tasks)) |->
                                       IF i = task_id THEN NewTask ELSE tasks[i]]
                         /\ response' = 200
       /\ UNCHANGED <<scr, mode, dom, probe, session, integrated_tasks>>

\* POST /clone: 429 when the request budget is used up, 400 for an invalid
\* URL, 500 without ANTHROPIC_API_KEY; otherwise the task is stored as
\* pending under a fresh uuid, handed to background_tasks.add_task and the
\* counters are updated. (A fresh uuid is a new index, or the index of a
\* task that was deleted and whose background task has ended.)
clone_website ==
    LET free == {i \in 1..Len(tasks) : ~tasks[i].present /\ tasks[i].at = "end"}
        task_id == IF free = {} THEN Len(tasks) + 1
                   ELSE CHOOSE i \in free : \A k \in free : i <= k
    IN /\ task_id <= (IF mode = "tasks" THEN MaxTasks ELSE MaxLive)
       /\ \E valid \in BOOLEAN, anthropic_configured \in BOOLEAN :
            IF requests_remaining <= 0 \/ ~valid \/ ~anthropic_configured
            THEN /\ response' = (IF requests_remaining <= 0 THEN 429
                                 ELSE IF ~valid THEN 400 ELSE 500)
                 /\ UNCHANGED <<tasks, requests_used, requests_remaining>>
            ELSE /\ tasks' = [i \in 1..(IF task_id > Len(tasks) THEN task_id ELSE Len(tasks)) |->
                                IF i = task_id THEN NewTask ELSE tasks[i]]
                 /\ requests_used' = requests_used + 1
                 /\ requests_remaining' = requests_remaining - 1
                 /\ response' = 200
       /\ UNCHANGED <<scr, mode, dom, probe, session, integrated_tasks>>

\* mutant: the except branch resets the progress
FailTask_resets_progress(t) ==
    [t EXCEPT !.status = "failed", !.progress = 0, !.error = TRUE, !.at = "end",
              !.outcome = "returned"]

\* except Exception as e: status "failed", progress kept, error = str(e);
\* then the finally
FailTask(t) ==
    [t EXCEPT !.status = "failed", !.error = TRUE, !.at = "end", !.outcome = "returned"]

\* tasks[task_id].update(...) on a deleted task: KeyError, and in the except
\* branch tasks[task_id].get(...) raises KeyError again, which leaves the
\* function through the finally
KeyErrorEscapes(t) == [t EXCEPT !.at = "end", !.outcome = "raised"]

\* finally: if scraper: await scraper.cleanup()
Finally(t, scraper_set) == IF scraper_set THEN [t EXCEPT !.cleanup = "ran"] ELSE t

\* process_enhanced_clone_task up to its first await: status "running",
\* scraper = WebsiteScraper() (raises without the cloud keys, which fails
\* the task), progress 0.3, then await scraper.scrape_website(url)
StartTask(i) ==
    /\ tasks[i].at = "queued"
    /\ tasks' = [tasks EXCEPT ![i] =
                   IF ~@.present THEN Finally(KeyErrorEscapes(@), FALSE)
                   ELSE IF configured
                   THEN [@ EXCEPT !.status = "running", !.progress = 30, !.at = "scrape"]
                   ELSE Finally(FailTask([@ EXCEPT !.status = "running", !.progress = 10]),
                                FALSE)]
    /\ UNCHANGED <<scr, mode, requests_used, requests_remaining, response, dom, probe, session, integrated_tasks>>

\* scrape_website returns or raises; progress 0.45 ... 0.7, then
\* await llm_cloner.clone_website(...)
ScrapeReturns(i) ==
    /\ tasks[i].at = "scrape"
    /\ \E ok \in BOOLEAN :
         tasks' = [tasks EXCEPT ![i] =
                     IF ~@.present THEN Finally(KeyErrorEscapes(@), TRUE)
                     ELSE IF ok THEN [@ EXCEPT !.progress = 70, !.at = "llm"]
                     ELSE Finally(FailTask(@), TRUE)]
    /\ UNCHANGED <<scr, mode, requests_used, requests_remaining, response, dom, probe, session, integrated_tasks>>

\* the code generation returns or raises: progress 0.85, 0.95, then status
\* "completed" with progress 1.0, the result and files_ready; or "failed"
GenerateReturns(i) ==
    /\ tasks[i].at = "llm"
    /\ \E ok \in BOOLEAN :
         tasks' = [tasks EXCEPT ![i] =
                     IF ~@.present THEN Finally(KeyErrorEscapes(@), TRUE)
                     ELSE IF ok
                     THEN Finally([@ EXCEPT !.status = "completed", !.progress = 100,
                                            !.result = TRUE, !.files_ready = TRUE,
                                            !.at = "end", !.outcome = "returned"], TRUE)
                     ELSE Finally(FailTask(@), TRUE)]
    /\ UNCHANGED <<scr, mode, requests_used, requests_remaining, response, dom, probe, session, integrated_tasks>>

NextTasks ==
    \/ clone_website
    \/ \E i \in 1..MaxTasks :
         /\ i <= Len(tasks)
         /\ \/ StartTask(i)
            \/ ScrapeReturns(i)
            \/ GenerateReturns(i)

\* the API server: /clone requests and the background tasks they start
SpecTasks == InitTasks /\ [][NextTasks]_vars

\* C11: at every moment the number of background tasks that are scraping
\* (holding a browser session) is at most the concurrency limit.
C11_ScrapesBounded ==
    Cardinality({i \in 1..Len(tasks) : tasks[i].at = "scrape"}) <= max_concurrent_tasks

(***************************************************************************)
(* Strings and URLs                                                        *)
(*                                                                         *)
(* A string is a sequence of chunks, e.g. <<"https:", "//", "example.com", *)
(* "/", "a", ".pdf">>.  The chunks are cut so that every pattern the code  *)
(* searches for (a scheme, "//", "/", a file extension, the host of the    *)
(* page) is one whole chunk, so that str.startswith and "x in s" are       *)
(* tests on chunks.                                                        *)
(***************************************************************************)
Schemes == {"http:", "https:"}

RECURSIVE lstrip(_)
lstrip(s) == IF s # <<>> /\ Head(s) = " " THEN lstrip(Tail(s)) ELSE s

RECURSIVE rstrip(_)
rstrip(s) == IF s # <<>> /\ s[Len(s)] = " " THEN rstrip(SubSeq(s, 1, Len(s) - 1)) ELSE s

strip(s) == rstrip(lstrip(s))

lower(s) == [i \in 1..Len(s) |-> IF s[i] = ".PDF" THEN ".pdf" ELSE s[i]]

startswith(s, prefix) == Len(s) >= Len(prefix) /\ SubSeq(s, 1, Len(prefix)) = prefix

\* s.startswith(('http://', 'https://'))
startswith_http(s) == startswith(s, <<"http:", "//">>) \/ startswith(s, <<"https:", "//">>)

\* mutant: a slice that keeps one element more
Take_one_more(s, n) == SubSeq(s, 1, Min2(n + 1, Len(s)))

\* s[:n]
Take(s, n) == SubSeq(s, 1, Min2(n, Len(s)))

\* urlparse(url).netloc
netloc(url) == IF Len(url) >= 3 /\ url[2] = "//" THEN url[3] ELSE ""

HasScheme(u) == u # <<>> /\ u[1] \in Schemes \cup {"mailto:", "tel:"}

\* scheme://host of an absolute URL
Origin(u) == SubSeq(u, 1, 3)

\* urllib.parse.urljoin(base, ref) for an absolute http(s) base
urljoin(base, ref) ==
    LET slashes == {i \in 4..Len(base) : base[i] = "/"}
        \* the base up to and including the last "/" of its path
        dir == IF slashes = {} THEN Origin(base) \o <<"/">>
               ELSE SubSeq(base, 1, CHOOSE i \in slashes : \A j \in slashes : j <= i)
    IN IF ref = <<>> THEN base
       ELSE IF HasScheme(ref) THEN ref
       ELSE IF ref[1] = "//" THEN <<base[1]>> \o ref
       ELSE IF ref[1] = "/" THEN Origin(base) \o ref
       ELSE IF ref[1] = "#" THEN base \o ref
       ELSE dir \o ref

(***************************************************************************)
(* Documents                                                               *)
(*                                                                         *)
(* html is the document as BeautifulSoup parses it: the text of <title>,   *)
(* the <a href>, <img>, <link rel=stylesheet>, <link rel=icon>, <script>   *)
(* and <style> elements and the elements with a style attribute, each in   *)
(* document order.  A piece of CSS is the hex colours and the font-family  *)
(* values that the regular expressions of the code find in it; a colour    *)
(* or an id is a number, a font-family value a pair <<family, quoting>>    *)
(* with quoting 0 (bare), 1 ('...') or 2 ("...").                          *)
(***************************************************************************)
\* an element that may be missing from the document, with its text or URL
NoTag == [present |-> FALSE, text |-> <<>>]
Tag(text) == [present |-> TRUE, text |-> text]

EmptyDoc ==
    [title |-> NoTag, anchors |-> <<>>, imgs |-> <<>>, css_links |-> <<>>,
     favicon |-> NoTag, scripts |-> <<>>, style_tags |-> <<>>, styled |-> <<>>,
     headings |-> <<>>, containers |-> <<>>, boxes |-> <<>>]

HrefList ==
    << <<"mailto:", "a@example.com">>,
       <<"tel:", "555">>,
       <<"/", "files", "/", "a", ".pdf">>,
       <<"https:", "//", "example.com", "/", "a", ".PDF">>,
       <<"/", "a", ".pdf", "-guide">>,
       <<"https:", "//", "example.com", "/", "about">>,
       <<"https:", "//", "evil.com", "/", "about">>,
       <<"https:", "//", "evil.com", "/", "?", "example.com">>,
       <<"http:", "//", "static.net", "/", "x">>,
       <<"//", "evil.com", "/", "x">>,
       <<"/", "about">>,
       <<"about">>,
       <<"#", "top">>,
       <<" ", "/", "about", " ">>,
       <<" ">> >>

SrcList ==
    << <<>>, <<"logo.png">>, <<"/", "img", "/", "logo.png">>,
       <<"//", "cdn.net", "/", "logo.png">>,
       <<"https:", "//", "cdn.net", "/", "logo.png">> >>

Range(xs) == {xs[i] : i \in 1..Len(xs)}

\* n copies of x; the elements of a list, over and over, n times
Repeat(x, n) == [i \in 1..n |-> x]
Cycle(xs, n) == [i \in 1..n |-> xs[((i - 1) % Len(xs)) + 1]]

\* how many elements the documents hold: a few, or around the cap
Counts(cap) == (0..Few) \cup ((cap - 1)..(cap + Over))

\* a style attribute per element: element i has colour i and font family i
StyledElements(n, withColors, withFonts) ==
    [i \in 1..n |-> [colors |-> IF withColors THEN <<i>> ELSE <<>>,
                     fonts |-> IF withFonts THEN << <<i, i % 3>> >> ELSE <<>>]]

\* The documents explored: one feature at a time on an otherwise empty page
\* (titles, anchors, images, stylesheet/script/icon references, style
\* attributes and blocks, scripts), and pages that exceed every cap at once.
Docs ==
    LET InlineScript(text) == [src |-> <<>>, type |-> "", text |-> text, json |-> "none"]
        ExternalScript(src) == [src |-> src, type |-> "", text |-> <<>>, json |-> "none"]
        JsonLd(json) ==
            [src |-> <<>>, type |-> "application/ld+json", text |-> <<>>, json |-> json]
        \* pieces of script text: a call such as gtag(, a quoted tracking id as
        \* written (in capitals), an fbq('init', '<digits>') call
        Call(name) == [kind |-> name, upper |-> FALSE, id |-> 0]
        GaId(n) == [kind |-> "ga_id", upper |-> TRUE, id |-> n]
        GtmId(n) == [kind |-> "gtm_id", upper |-> TRUE, id |-> n]
        FbqInit(n) == [kind |-> "fbq_init", upper |-> FALSE, id |-> n]
    IN {[EmptyDoc EXCEPT !.title = t] :
            t \in {NoTag, Tag(<<>>), Tag(<<" ">>), Tag(<<"Home">>), Tag(<<" ", "Home", " ">>)}}
        \cup {[EmptyDoc EXCEPT !.anchors = Repeat(h, n)] : h \in Range(HrefList), n \in 1..Few}
        \cup {[EmptyDoc EXCEPT !.anchors = Cycle(HrefList, n)] : n \in Counts(max_links)}
        \cup {[EmptyDoc EXCEPT !.imgs = <<src>>] : src \in Range(SrcList)}
        \cup {[EmptyDoc EXCEPT !.imgs = Cycle(SrcList, n)] : n \in Counts(max_images)}
        \cup {[EmptyDoc EXCEPT !.css_links = <<src>>, !.scripts = <<ExternalScript(src)>>,
                               !.favicon = Tag(src)] : src \in Range(SrcList)}
        \cup {[EmptyDoc EXCEPT !.styled = StyledElements(n, TRUE, FALSE)]
                 : n \in Counts(max_colors)}
        \cup {[EmptyDoc EXCEPT !.styled = StyledElements(n, FALSE, TRUE)]
                 : n \in Counts(max_fonts)}
        \cup {[EmptyDoc EXCEPT !.styled = StyledElements(n, TRUE, TRUE),
                               !.style_tags = <<[colors |-> <<7, 8, 7>>,
                                                 fonts |-> << <<7, 2>>, <<7, 1>>, <<8, 0>> >>]>>]
                 : n \in 0..Few}
        \cup {[EmptyDoc EXCEPT !.scripts = ss] :
                 ss \in { <<InlineScript(<<Call("gtag("), GaId(1)>>)>>,
                          <<InlineScript(<<Call("ga("), GaId(2), GaId(1), GaId(2)>>)>>,
                          <<InlineScript(<<Call("gtag("), GaId(1), GtmId(1), FbqInit(1)>>)>>,
                          <<InlineScript(<<GtmId(2)>>),
                            InlineScript(<<FbqInit(2), FbqInit(1)>>),
                            InlineScript(<<Call("gtag("), GaId(3)>>)>>,
                          <<InlineScript(<<Call("app(")>>), ExternalScript(<<"/", "app.js">>)>>,
                          <<JsonLd("valid")>>,
                          <<JsonLd("invalid"), JsonLd("valid")>> }}
        \cup {[EmptyDoc EXCEPT !.headings = hs] :
                 hs \in {<<1>>, <<2, 1>>, <<1, 2, 3>>, <<3, 1, 2, 1>>, <<2, 2>>}}
        \cup {[EmptyDoc EXCEPT !.containers = Repeat(<<"hero">>, k)
                                                \o Repeat(<<"post", "-card">>, n)]
                 : k \in 0..Few, n \in Counts(max_content_blocks)}
        \cup {[EmptyDoc EXCEPT !.boxes = Repeat(FALSE, k) \o Repeat(TRUE, n)]
                 : k \in 0..Few, n \in Counts(max_layout_containers)}
        \cup {[EmptyDoc EXCEPT !.anchors = Repeat(<<" ">>, k) \o Repeat(<<"/", "about">>, n)]
                 : k \in 1..Few, n \in (max_links - 1)..(max_links + Over)}
        \cup {[EmptyDoc EXCEPT !.title = Tag(<<"Home">>),
                               !.anchors = Repeat(<<"/", "about">>, max_links + k),
                               !.imgs = Cycle(SrcList, max_images + k),
                               !.styled = StyledElements(max_colors + k, TRUE, TRUE)]
                 : k \in 1..Over}

(***************************************************************************)
(* The extractors of _extract_page_data                                    *)
(***************************************************************************)
\* the iteration order of a Python set of strings: fixed within a process,
\* a function of the hash seed across processes
RECURSIVE Ascending(_)
Ascending(S) ==
    IF S = {} THEN <<>>
    ELSE LET m == CHOOSE x \in S : \A y \in S : x <= y
         IN <<m>> \o Ascending(S \ {m})

list_of_set(S, seed) ==
    LET up == Ascending(S)
    IN IF seed = 0 THEN up ELSE [i \in 1..Len(up) |-> up[Len(up) + 1 - i]]

\* font_family.replace('"', "'")
replace_quotes(f) == <<f[1], IF f[2] = 2 THEN 1 ELSE f[2]>>

\* title_tag.get_text().strip() if title_tag else "Untitled"
_extract_title(soup) == IF soup.title.present THEN strip(soup.title.text) ELSE <<"Untitled">>

\* for script in soup(["script", "style", "noscript"]): script.decompose()
decompose(soup) == [soup EXCEPT !.scripts = <<>>, !.style_tags = <<>>]

\* _extract_text_content: the text that is left, and the soup as it leaves it
_extract_text_content(soup) ==
    [text |-> IF soup.title.present THEN strip(soup.title.text) ELSE <<>>,
     soup |-> decompose(soup)]

_extract_styles(soup) ==
    [style_sheets |-> soup.style_tags,
     external_css |-> SelectSeq(soup.css_links, LAMBDA h : h # <<>>)]

_extract_scripts(soup) ==
    LET ext_tags == SelectSeq(soup.scripts, LAMBDA sc : sc.src # <<>>)
        inl_tags == SelectSeq(soup.scripts,
                              LAMBDA sc : sc.src = <<>> /\ (sc.text # <<>> \/ sc.json # "none"))
    IN [external |-> [i \in 1..Len(ext_tags) |-> ext_tags[i].src],
        inline |-> [i \in 1..Len(inl_tags) |->
                      [text |-> inl_tags[i].text, json |-> inl_tags[i].json]]]

\* "Make absolute URL" of _extract_images and _extract_favicon
make_absolute(src, base) ==
    IF startswith(src, <<"//">>) THEN <<"https:">> \o src
    ELSE IF startswith(src, <<"/">>) THEN urljoin(base, src)
    ELSE IF ~startswith_http(src) THEN urljoin(base, src)
    ELSE src

_extract_images(soup, base) ==
    LET img_tags == Take(soup.imgs, max_images)
    IN [i \in 1..Len(img_tags) |->
          [src |-> IF img_tags[i] # <<>> THEN make_absolute(img_tags[i], base) ELSE <<>>]]

DownloadExts == {".pdf", ".doc", ".zip", ".mp3", ".mp4"}
Categories == {"internal", "external", "email", "phone", "download"}

\* the if / elif chain of _extract_links
category(href, base_domain) ==
    IF startswith(href, <<"mailto:">>) THEN "email"
    ELSE IF startswith(href, <<"tel:">>) THEN "phone"
    ELSE IF \E e \in DownloadExts : Contains(lower(href), e) THEN "download"
    ELSE IF startswith_http(href)
         THEN (IF Contains(href, base_domain) THEN "internal" ELSE "external")
    ELSE "internal"

_extract_links(soup, base) ==
    LET a_tags == Take(soup.anchors, max_links)
        hrefs == SelectSeq([i \in 1..Len(a_tags) |-> strip(a_tags[i])], LAMBDA h : h # <<>>)
        base_domain == netloc(base)
        of(cat) == LET hs == SelectSeq(hrefs, LAMBDA h : category(h, base_domain) = cat)
                   IN [i \in 1..Len(hs) |-> [href |-> hs[i]]]
    IN [cat \in Categories |-> of(cat)]

_extract_colors(soup, seed) ==
    LET colors == UNION {Range(el.colors) : el \in Range(soup.styled) \cup Range(soup.style_tags)}
    IN Take(list_of_set(colors, seed), max_colors)

_extract_fonts(soup, seed) ==
    LET inline == {replace_quotes(el.fonts[1]) :
                      el \in {e \in Range(soup.styled) : e.fonts # <<>>}}
        sheets == UNION {{replace_quotes(f) : f \in Range(st.fonts)} : st \in Range(soup.style_tags)}
        \* a font-family value as a number and back
        FontCode(f) == 3 * f[1] + f[2]
        FontOf(n) == <<n \div 3, n % 3>>
        order == list_of_set({FontCode(f) : f \in inline \cup sheets}, seed)
    IN Take([i \in 1..Len(order) |-> FontOf(order[i])], max_fonts)

_extract_structured_data(soup) ==
    LET ok == SelectSeq(soup.scripts,
                        LAMBDA sc : sc.type = "application/ld+json" /\ sc.json = "valid")
    IN [i \in 1..Len(ok) |-> [type |-> "json-ld", data |-> ok[i].json]]

FaviconPath == <<"/", "favicon.ico">>

_extract_favicon(soup, base) ==
    IF soup.favicon.present /\ soup.favicon.text # <<>>
    THEN [href |-> make_absolute(soup.favicon.text, base)]
    ELSE [href |-> urljoin(base, FaviconPath)]

\* _extract_analytics: per script, script_content = script.get_text().lower();
\* a vendor is looked for when its marker is in the lowered text, and its ids
\* are the matches of its pattern in the lowered text: UA-... / G-... and
\* GTM-... are patterns in capitals, fbq('init', '<digits>') has no capitals.
\* The lists are made unique through set(). (The markers in src and
\* other_tracking are left out.)
_extract_analytics(soup, seed) ==
    LET script_content(sc) == [i \in 1..Len(sc.text) |-> [sc.text[i] EXCEPT !.upper = FALSE]]
        has(sc, kinds) == \E w \in Range(script_content(sc)) : w.kind \in kinds
        findall(sc, kind, capitals) ==
            {w.id : w \in {x \in Range(script_content(sc)) :
                               x.kind = kind /\ (capitals => x.upper)}}
        ga(sc) == IF has(sc, {"gtag(", "ga("}) THEN findall(sc, "ga_id", TRUE) ELSE {}
        gtm(sc) == IF has(sc, {"gtm_id"}) THEN findall(sc, "gtm_id", TRUE) ELSE {}
        fb(sc) == IF has(sc, {"fbq_init"}) THEN findall(sc, "fbq_init", FALSE) ELSE {}
    IN [google_analytics |-> list_of_set(UNION {ga(sc) : sc \in Range(soup.scripts)}, seed),
        google_tag_manager |-> list_of_set(UNION {gtm(sc) : sc \in Range(soup.scripts)}, seed),
        facebook_pixel |-> list_of_set(UNION {fb(sc) : sc \in Range(soup.scripts)}, seed)]

\* _analyze_structure. headings: for i in range(1, 7), every h<i> of the
\* document, 'position' being the length of the list so far. content_blocks:
\* of the first 20 div/section/article that have a class, those whose class
\* contains a content keyword. An element is named by its index among the
\* elements of its kind in the document.
_analyze_structure(soup) ==
    LET hs == soup.headings
        of_level(i) == SelectSeq([k \in 1..Len(hs) |-> k], LAMBDA k : hs[k] = i)
        order == of_level(1) \o of_level(2) \o of_level(3)
                    \o of_level(4) \o of_level(5) \o of_level(6)
        content_containers == Take(soup.containers, max_content_blocks)
        keyword(k) == \E w \in Range(soup.containers[k]) :
                          w \in {"content", "main", "body", "article", "post"}
        blocks == SelectSeq([k \in 1..Len(content_containers) |-> k], keyword)
    IN [headings |-> [p \in 1..Len(order) |->
                        [level |-> hs[order[p]], element |-> order[p], position |-> p - 1]],
        content_blocks |-> [p \in 1..Len(blocks) |->
                              [element |-> blocks[p], classes |-> soup.containers[blocks[p]]]]]

\* the containers of _analyze_layout: of the first 50 div/section/main/...
\* of the rendered page, those with a non-empty bounding box
layout_containers(boxes) ==
    LET first == Take(boxes, max_layout_containers)
    IN SelectSeq([k \in 1..Len(first) |-> k], LAMBDA k : first[k])

\* _extract_page_data: the entries of the dict are evaluated top down on the
\* one soup: the title first, then the text content, then the rest
_extract_page_data(doc, base, seed) ==
    LET soup == _extract_text_content(doc).soup
    IN [url |-> base,
        title |-> _extract_title(doc),
        text_content |-> _extract_text_content(doc).text,
        structure |-> _analyze_structure(soup),
        styles |-> _extract_styles(soup),
        scripts |-> _extract_scripts(soup),
        images |-> _extract_images(soup, base),
        links |-> _extract_links(soup, base),
        colors |-> _extract_colors(soup, seed),
        fonts |-> _extract_fonts(soup, seed),
        structured_data |-> _extract_structured_data(soup),
        favicon |-> _extract_favicon(soup, base),
        analytics |-> _extract_analytics(soup, seed)]

InitDom ==
    /\ mode = "dom"
    /\ ScraperIdle
    /\ IdleExcept("dom")
    /\ html \in Docs
    /\ base_url \in { <<"https:", "//", "example.com", "/", "blog", "/", "post">>,
                       <<"http:", "//", "example.com">> }
    /\ hashseed \in {0, 1}
    /\ data = "none"
    /\ prev = "none"
    /\ runs = 0

\* layout_data = await self._analyze_layout(page); soup = BeautifulSoup(html_content);
\* scraped_data = await self._extract_page_data(url, html_content, soup);
\* scraped_data.update({..., 'layout': layout_data, ...})
RunExtraction ==
    /\ runs < MaxRuns
    /\ data' = [layout |-> layout_containers(html.boxes)]
                   @@ _extract_page_data(html, base_url, hashseed)
    /\ prev' = data
    /\ runs' = runs + 1
    /\ UNCHANGED <<scr, mode, api, probe, session, integrated_tasks, html, base_url, hashseed>>

\* the server is restarted: the next extraction runs in a new process
NewProcess ==
    /\ runs < MaxRuns
    /\ \E seed \in {0, 1} \ {hashseed} : hashseed' = seed
    /\ UNCHANGED <<scr, mode, api, probe, session, integrated_tasks, html, base_url, data, prev, runs>>

NextDom == RunExtraction \/ NewProcess

\* DOM extraction of one document, run repeatedly
SpecDom == InitDom /\ [][NextDom]_vars

\* C12: every extracted link is in exactly one of the five categories, and
\* that category is the one the precedence gives: mailto: -> email, tel: ->
\* phone, a known binary file extension -> download, an absolute http(s) URL
\* whose host differs from the page's host -> external, anything else ->
\* internal.
C12_LinkCategories ==
    runs >= 1 =>
        LET a_tags == Take(html.anchors, max_links)
            hrefs == {strip(a_tags[i]) : i \in 1..Len(a_tags)} \ {<<>>}
            In(cat, h) == \E i \in 1..Len(data.links[cat]) : data.links[cat][i].href = h
            expected(h) ==
                IF h[1] = "mailto:" THEN "email"
                ELSE IF h[1] = "tel:" THEN "phone"
                ELSE IF lower(h)[Len(h)] \in DownloadExts THEN "download"
                ELSE IF startswith_http(h) /\ netloc(h) # netloc(base_url) THEN "external"
                ELSE "internal"
        IN \A h \in hrefs :
              /\ Cardinality({cat \in Categories : In(cat, h)}) = 1
              /\ In(expected(h), h)

\* C13: the extraction output holds at most 30 images, 30 colors and 15
\* fonts, and at most 100 links over the five categories together.
C13_Caps ==
    runs >= 1 =>
        /\ Len(data.images) <= 30
        /\ Len(data.colors) <= 30
        /\ Len(data.fonts) <= 15
        /\ Len(data.links["internal"]) + Len(data.links["external"])
             + Len(data.links["email"]) + Len(data.links["phone"])
             + Len(data.links["download"]) <= 100

C13_Witness ==
    /\ runs >= 1
    /\ Len(html.imgs) > 30 /\ Len(data.images) = 30
    /\ Len(html.styled) > 30 /\ Len(data.colors) = 30 /\ Len(data.fonts) = 15
    /\ Len(html.anchors) > 100 /\ Len(data.links["internal"]) = 100

\* C14: every URL field of the output (image src, link href, external
\* stylesheet href, external script src, favicon href) is the attribute
\* resolved against the page URL, an absolute URL.
C14_UrlsAbsolute ==
    runs >= 1 =>
        LET resolved(refs) == {urljoin(base_url, strip(r)) : r \in refs}
            absolute(u) ==
                /\ HasScheme(u)
                /\ u[1] \in Schemes => (Len(u) >= 3 /\ u[2] = "//" /\ u[3] # "/")
        IN /\ \A i \in 1..Len(data.images) :
                /\ data.images[i].src = urljoin(base_url, html.imgs[i])
                /\ absolute(data.images[i].src)
           /\ \A cat \in Categories : \A i \in 1..Len(data.links[cat]) :
                /\ data.links[cat][i].href \in resolved(Range(html.anchors))
                /\ absolute(data.links[cat][i].href)
           /\ \A i \in 1..Len(data.styles.external_css) :
                /\ data.styles.external_css[i] \in resolved(Range(html.css_links))
                /\ absolute(data.styles.external_css[i])
           /\ \A i \in 1..Len(data.scripts.external) :
                /\ data.scripts.external[i] \in resolved({sc.src : sc \in Range(html.scripts)})
                /\ absolute(data.scripts.external[i])
           /\ data.favicon.href =
                 urljoin(base_url, IF html.favicon.present /\ html.favicon.text # <<>>
                                   THEN html.favicon.text ELSE FaviconPath)
           /\ absolute(data.favicon.href)

\* C16: two runs of the extraction on the same document and page URL, in one
\* process or in two, give the same output.
C16_Deterministic == runs >= 2 => data = prev

\* C17: the title of every result is non-empty.
C17_TitleNonEmpty == runs >= 1 => data.title # <<>>

\* C20: the scripts, internal stylesheets, colors, fonts, structured data and
\* analytics of the result are what each extractor returns on a freshly
\* parsed copy of the document.
C20_ExtractorsSeeWholeDocument ==
    runs >= 1 =>
        /\ data.scripts = _extract_scripts(html)
        /\ data.styles.style_sheets = _extract_styles(html).style_sheets
        /\ data.colors = _extract_colors(html, hashseed)
        /\ data.fonts = _extract_fonts(html, hashseed)
        /\ data.structured_data = _extract_structured_data(html)
        /\ data.analytics = _extract_analytics(html, hashseed)

(***************************************************************************)
(* The responsive probe, as a function of the page and of the outcomes of  *)
(* its browser calls: WebsiteScraper._detect_responsive_design and         *)
(* AdvancedStealthScraper._test_responsive                                 *)
(***************************************************************************)
stealth_test_widths == <<375, 768, 1024, 1920>>

\* what _detect_responsive_design returns: the dict, or the default of its
\* except branch when reading the viewport meta raises
_detect_responsive_design(meta, metaOk, o) ==
    IF metaOk THEN ResponsiveResult(meta, o) ELSE ResponsiveDefault

\* responsive_data of _test_responsive after its loop: 'is_responsive' keeps
\* its initial False; a width whose resize or evaluate raises is skipped
RECURSIVE StealthBreakpoints(_, _)
StealthBreakpoints(o, i) ==
    IF i > 4 THEN <<>>
    ELSE (IF o[i] = "ok"
          THEN <<[width |-> stealth_test_widths[i],
                  containerMaxWidth |-> SiteMaxWidth(stealth_test_widths[i])]>>
          ELSE <<>>) \o StealthBreakpoints(o, i + 1)

_test_responsive(o) ==
    [keys |-> {"is_responsive", "breakpoint_tests"}, viewport_meta |-> NoMeta,
     breakpoint_tests |-> StealthBreakpoints(o, 1),
     is_responsive |-> FALSE, has_media_queries |-> FALSE]

InitResp ==
    /\ mode = "resp"
    /\ ScraperIdle
    /\ IdleExcept("probe")
    /\ probe \in {[by |-> "none", outcomes |-> AllOk4, page_meta |-> m,
                  report |-> ResponsiveDefault]
                 : m \in Metas \cup {[isNone |-> FALSE, tokens |-> <<"width=1024">>],
                                     [isNone |-> FALSE,
                                      tokens |-> <<"initial-scale=1", "width=device-width">>]}}

\* the probe of scraper.py runs on the page
DetectResponsive ==
    /\ probe.by = "none"
    /\ \E metaOk \in BOOLEAN, o \in WidthOutcomes :
         /\ ~metaOk => o = AllOk4
         /\ probe' = [by |-> "scraper", outcomes |-> o, page_meta |-> probe.page_meta,
                      report |-> _detect_responsive_design(probe.page_meta, metaOk, o)]
    /\ UNCHANGED <<scr, mode, api, dom, session, integrated_tasks>>

\* the probe of advanced_stealth_scraper.py runs on the page
TestResponsive ==
    /\ probe.by = "none"
    /\ \E o \in WidthOutcomes :
         probe' = [by |-> "stealth", outcomes |-> o, page_meta |-> probe.page_meta,
                   report |-> _test_responsive(o)]
    /\ UNCHANGED <<scr, mode, api, dom, session, integrated_tasks>>

NextResp == DetectResponsive \/ TestResponsive

\* one responsive probe of one page
SpecResp == InitResp /\ [][NextResp]_vars

\* C15: the probe reports is_responsive = true exactly when the page has a
\* viewport meta tag whose content contains width=device-width, whatever the
\* breakpoint tests do.
C15_ResponsiveIffDeviceWidth ==
    probe.by # "none" =>
        (probe.report.is_responsive <=>
            (~probe.page_meta.isNone
                /\ \E i \in 1..Len(probe.page_meta.tokens) :
                      probe.page_meta.tokens[i] = "width=device-width"))

(***************************************************************************)
(* WebsiteScraper.cleanup as a whole                                       *)
(***************************************************************************)
\* C18: when cleanup has returned to the finally that called it, the close of
\* every resource the scraper held (page, context, browser, driver) has been
\* attempted, whichever of the closes failed.
C18_EveryCloseAttempted ==
    \A c \in Calls :
        call[c].pc = "pw_exit" =>
            \A field \in {"page", "context", "browser", "playwright"} :
                self[field] # None => res[self[field]].tries >= 1

(***************************************************************************)
(* create_browserbase_session on its own: one call, any answer to the POST *)
(***************************************************************************)
InitSession ==
    /\ mode = "session"
    /\ ScraperIdle
    /\ IdleExcept("session")
    /\ session \in {[post |-> post, called |-> FALSE, raised |-> "none", id |-> "none"]
                     : post \in PostOutcomes}

\* await self.create_browserbase_session()
CallCreateSession ==
    /\ ~session.called
    /\ LET out == create_browserbase_session(session.post)
       IN session' = [session EXCEPT !.called = TRUE, !.raised = out.raised, !.id = out.id]
    /\ UNCHANGED <<scr, mode, api, dom, probe, integrated_tasks>>

SpecSession == InitSession /\ [][CallCreateSession]_vars

\* C19: the call returns the session id of the body for every 2xx response
\* that carries one, and raises the session-creation error for every non-2xx
\* response, every timeout and every network failure.
C19_SessionFor2xxErrorOtherwise ==
    LET post == session.post
        is2xx == post.kind = "response" /\ post.status \in 200..299
    IN session.called =>
         /\ (is2xx /\ post.body.has_id)
               => (session.raised = "none" /\ session.id = post.body.id)
         /\ ~is2xx => session.raised = "Exception"

(***************************************************************************)
(* Independence of the probes                                              *)
(***************************************************************************)
\* C21: the layout snapshot does not depend on the probes that ran before it:
\* the viewport it reports is the one the page was opened with (1920x1080 on
\* the local path, the CDP default on the cloud path), which is what it
\* reports in an order of the probes in which it runs first.
C21_LayoutSeesFreshViewport ==
    \A c \in Calls :
        (call[c].pc \in {"x_resp", "x_insights", "x_dom"} /\ call[c].result.layout # <<>>) =>
            call[c].result.layout = IF call[c].path = "pw" THEN DesktopVp ELSE CdpDefaultVp

(***************************************************************************)
(* Navigation after a network-idle timeout                                 *)
(***************************************************************************)
\* C22: on both paths a network-idle navigation is never attempted after a
\* network-idle navigation has timed out: the one retry waits for DOM-ready.
C22_NoSecondNetworkIdle ==
    \A c \in Calls : call[c].pc \in {"bb_goto", "pw_goto"} => call[c].navTry = 0

(***************************************************************************)
(* Caps and order of the collections                                       *)
(***************************************************************************)
\* C23: a capped collection is cut after filtering: when the document holds
\* at least N elements that pass the filter, the output holds exactly N
\* (content blocks N = 20, layout containers N = 50, links N = 100).
C23_CapAfterFilter ==
    runs >= 1 =>
        LET passing(xs, Ok(_)) == Cardinality({k \in 1..Len(xs) : Ok(xs[k])})
            Keyword(cls) == \E w \in Range(cls) :
                               w \in {"content", "main", "body", "article", "post"}
            Visible(b) == b
            HasHref(h) == strip(h) # <<>>
            links == Len(data.links["internal"]) + Len(data.links["external"])
                       + Len(data.links["email"]) + Len(data.links["phone"])
                       + Len(data.links["download"])
        IN /\ passing(html.containers, Keyword) >= max_content_blocks
                => Len(data.structure.content_blocks) = max_content_blocks
           /\ passing(html.boxes, Visible) >= max_layout_containers
                => Len(data.layout) = max_layout_containers
           /\ passing(html.anchors, HasHref) >= max_links => links = max_links

\* C24: the headings of the output are in document order, and the position
\* of each is its index among the headings of the document.
C24_HeadingsInDocumentOrder ==
    runs >= 1 =>
        /\ Len(data.structure.headings) = Len(html.headings)
        /\ \A p \in 1..Len(data.structure.headings) :
              /\ data.structure.headings[p].element = p
              /\ data.structure.headings[p].position = p - 1
              /\ data.structure.headings[p].level = html.headings[p]

(***************************************************************************)
(* Analytics                                                               *)
(***************************************************************************)
\* C25: for a page whose scripts hold a Google Analytics id, a Tag Manager
\* id and an fbq('init', ...) call, the analytics of the result hold the ids
\* of all three vendors.
C25_EveryVendorReported ==
    runs >= 1 =>
        LET written(kind) ==
                UNION {{w.id : w \in {x \in Range(sc.text) : x.kind = kind}}
                          : sc \in Range(html.scripts)}
        IN (written("ga_id") # {} /\ written("gtm_id") # {} /\ written("fbq_init") # {}) =>
              /\ Range(data.analytics.google_analytics) = written("ga_id")
              /\ Range(data.analytics.google_tag_manager) = written("gtm_id")
              /\ Range(data.analytics.facebook_pixel) = written("fbq_init")

(***************************************************************************)
(* main.py: the task endpoints next to the running background tasks        *)
(***************************************************************************)
\* POST /tasks/{id}/cancel: 404 for an unknown id, 400 for a task that is
\* completed, failed or cancelled; otherwise status "cancelled"
cancel_task(i) ==
    /\ tasks[i].present
    /\ tasks[i].status \notin {"completed", "failed", "cancelled"}
    /\ tasks' = [tasks EXCEPT ![i] = [@ EXCEPT !.status = "cancelled"]]
    /\ UNCHANGED <<scr, mode, requests_used, requests_remaining, response, dom, probe, session, integrated_tasks>>

\* DELETE /tasks/{id}: 404 for an unknown id; otherwise tasks.pop(task_id)
delete_task(i) ==
    /\ tasks[i].present
    /\ tasks' = [tasks EXCEPT ![i] =
                   [@ EXCEPT !.present = FALSE, !.status = "none", !.progress = 0,
                             !.result = FALSE, !.error = FALSE, !.files_ready = FALSE]]
    /\ UNCHANGED <<scr, mode, requests_used, requests_remaining, response, dom, probe, session, integrated_tasks>>

InitApi ==
    /\ mode = "api"
    /\ configured \in BOOLEAN
    /\ scraper = "none"
    /\ self = NoSelf
    /\ call = [c \in Calls |-> InitFrame]
    /\ hist = [c \in Calls |-> InitHist]
    /\ res = [i \in Ids |-> Free]
    /\ faults = [hard |-> 0, probe |-> 0, close |-> 0, timeout |-> 0]
    /\ IdleExcept("none")

NextApi ==
    \/ clone_website
    \/ \E i \in 1..MaxLive :
         /\ i <= Len(tasks)
         /\ \/ StartTask(i)
            \/ ScrapeReturns(i)
            \/ GenerateReturns(i)
            \/ cancel_task(i)
            \/ delete_task(i)

\* the API server with its task endpoints, a few tasks at a time
SpecApi == InitApi /\ [][NextApi]_vars

\* C26: a task whose status is cancelled, completed or failed keeps that
\* status for as long as it is in the table.
C26_TerminalStatusIsFinal ==
    [][\A i \in 1..Len(tasks) :
          (/\ tasks[i].present
           /\ tasks[i].status \in {"cancelled", "completed", "failed"}
           /\ tasks'[i].present) => tasks'[i].status = tasks[i].status]_vars

\* C27: requests_used + requests_remaining = 15 and requests_remaining >= 0
\* always; a rejected POST /clone (429, 400, 500) leaves the counters and the
\* table as they are, and a 429 is given only when nothing remains; the
\* counters move only by one unit from remaining to used, together with
\* exactly one new task, in status pending, and no task is added otherwise.
C27_RequestCounters ==
    /\ [](requests_used + requests_remaining = requests_limit /\ requests_remaining >= 0)
    /\ [][LET added == {i \in 1..Len(tasks') :
                          tasks'[i].present /\ (i > Len(tasks) \/ ~tasks[i].present)}
               counted == requests_used' # requests_used
                             \/ requests_remaining' # requests_remaining
           IN /\ (response' # response /\ response' \in {429, 400, 500}) =>
                    /\ UNCHANGED <<tasks, requests_used, requests_remaining>>
                    /\ response' = 429 <=> requests_remaining = 0
              /\ (counted \/ added # {}) =>
                    /\ requests_used' = requests_used + 1
                    /\ requests_remaining' = requests_remaining - 1
                    /\ response' = 200
                    /\ Cardinality(added) = 1
                    /\ \A i \in added : tasks'[i] = NewTask]_vars

\* the whole budget was used and a further request was turned away
C27_Witness ==
    /\ requests_used = requests_limit
    /\ requests_remaining = 0
    /\ response = 429

\* C29: the background task of a task that was deleted ends without an
\* exception that nothing handles.
C29_DeletedTaskEndsQuietly ==
    \A i \in 1..Len(tasks) :
        (~tasks[i].present /\ tasks[i].at = "end") => tasks[i].outcome = "returned"

\* C30: a completed task has progress 1.0, a result and files_ready; a failed
\* task has an error and the progress of the point of failure (0.1 for the
\* failure of the first segment, which has set it) for as long as it is in
\* the table; the progress of a task never decreases.
C30_TaskRecordsConsistent ==
    /\ [](\A i \in 1..Len(tasks) :
            /\ (tasks[i].present /\ tasks[i].status = "completed") =>
                  (tasks[i].progress = 100 /\ tasks[i].result /\ tasks[i].files_ready)
            /\ (tasks[i].present /\ tasks[i].status = "failed") => tasks[i].error)
    /\ [][\A i \in 1..Len(tasks) :
            (tasks[i].present /\ tasks'[i].present) =>
                /\ tasks'[i].progress >= tasks[i].progress
                /\ tasks[i].status = "failed" => tasks'[i].progress = tasks[i].progress
                /\ (tasks[i].status # "failed" /\ tasks'[i].status = "failed") =>
                      tasks'[i].progress = IF tasks[i].at = "queued" THEN 10
                                           ELSE tasks[i].progress]_vars

\* a task completed, and another failed in the code generation at 0.7
C30_Witness ==
    \E i, j \in 1..Len(tasks) :
        /\ tasks[i].present /\ tasks[i].status = "completed"
        /\ tasks[j].present /\ tasks[j].status = "failed" /\ tasks[j].progress = 70


(***************************************************************************)
(* integrated_stealth_cloner.py: the integrated pipeline and its task      *)
(* table.  Besides the fields of the record, a task carries what the       *)
(* pipeline really did: the phase it is executing (the phase that raised,  *)
(* once it has failed) and the phases it has finished.                     *)
(***************************************************************************)
\* the phases of clone_website_with_perfect_accuracy, in the order it runs them
pipeline_phases ==
    <<"stealth_scraping", "adaptive_analysis", "specialized_generation", "quality_validation">>

InitStealth ==
    /\ mode = "stealth"
    /\ ScraperIdle
    /\ IdleExcept("stealth")
    /\ integrated_tasks = <<>>

\* POST /clone/stealth-adaptive: a pending task and its background task
clone_with_stealth_and_adaptation ==
    /\ Len(integrated_tasks) < MaxStealth
    /\ integrated_tasks' = Append(integrated_tasks,
           [status |-> "pending", phase |-> "initialization", progress |-> 0,
            phases_completed |-> <<>>, error_phase |-> "none",
            executing |-> "none", finished |-> <<>>])
    /\ UNCHANGED <<scr, mode, api, dom, probe, session>>

\* except Exception: current_phase = integrated_tasks[task_id].get("phase"),
\* status failed, error_phase = current_phase
FailStealth(t, raised_in) ==
    [t EXCEPT !.status = "failed", !.error_phase = t.phase, !.executing = raised_in]

\* process_integrated_stealth_clone up to its await: three updates one after
\* the other, then the pipeline is called and starts its first phase
StartStealthClone(i) ==
    /\ integrated_tasks[i].status = "pending"
    /\ integrated_tasks' = [integrated_tasks EXCEPT ![i] =
           [@ EXCEPT !.status = "running",
                     !.phase = pipeline_phases[3],
                     !.progress = 60,
                     !.phases_completed = SubSeq(pipeline_phases, 1, 2),
                     !.executing = pipeline_phases[1]]]
    /\ UNCHANGED <<scr, mode, api, dom, probe, session>>

\* the scraper of _stealth_scrape_phase returns or raises; the analysis
\* phase has no await and runs right after it; then the generation phase
\* awaits the language model
StealthScrapeReturns(i) ==
    /\ integrated_tasks[i].status = "running"
    /\ integrated_tasks[i].executing = pipeline_phases[1]
    /\ \E raised_in \in {"none", pipeline_phases[1], pipeline_phases[2]} :
         integrated_tasks' = [integrated_tasks EXCEPT ![i] =
           IF raised_in = pipeline_phases[1] THEN FailStealth(@, raised_in)
           ELSE IF raised_in = pipeline_phases[2]
                THEN FailStealth([@ EXCEPT !.finished = SubSeq(pipeline_phases, 1, 1)],
                                 raised_in)
                ELSE [@ EXCEPT !.finished = SubSeq(pipeline_phases, 1, 2),
                               !.executing = pipeline_phases[3]]]
    /\ UNCHANGED <<scr, mode, api, dom, probe, session>>

\* the language model of _adaptive_generation_phase returns or raises; the
\* validation phase has no await and never raises; the pipeline returns and
\* the task is completed
GenerationReturns(i) ==
    /\ integrated_tasks[i].status = "running"
    /\ integrated_tasks[i].executing = pipeline_phases[3]
    /\ \E ok \in BOOLEAN :
         integrated_tasks' = [integrated_tasks EXCEPT ![i] =
           IF ok THEN [@ EXCEPT !.status = "completed",
                                !.phase = "completed",
                                !.progress = 100,
                                !.phases_completed = pipeline_phases,
                                !.finished = pipeline_phases,
                                !.executing = "none"]
           ELSE FailStealth(@, pipeline_phases[3])]
    /\ UNCHANGED <<scr, mode, api, dom, probe, session>>

NextStealth ==
    \/ clone_with_stealth_and_adaptation
    \/ \E i \in 1..Len(integrated_tasks) :
         \/ StartStealthClone(i)
         \/ StealthScrapeReturns(i)
         \/ GenerationReturns(i)

\* the integrated cloner with a few tasks at a time
SpecStealth == InitStealth /\ [][NextStealth]_vars

\* C28: a phase is in phases_completed only when the pipeline has finished
\* that phase, and the error_phase of a failed task is the phase that was
\* executing when the exception was raised.
C28_PhasesReportedAsTheyHappen ==
    \A i \in 1..Len(integrated_tasks) :
        LET t == integrated_tasks[i]
        IN /\ Range(t.phases_completed) \subseteq Range(t.finished)
           /\ t.status = "failed" => t.error_phase = t.executing

====
